---- MODULE Spec2Model ----
(***************************************************************************)
(* DesignerWidgetMixin (src/src/DesignerWidgetMixin.ts): the Designable    *)
(* class wrapped around a widget so that it can be used in the designer.   *)
(* The state is one Designable instance as the host engine drives it:      *)
(* its children, its properties as resolved by beforeProperties, the key   *)
(* recorded by afterRender, and what the last hook produced.               *)
(***************************************************************************)
EXTENDS Integers, Sequences, FiniteSets, TLC

VARIABLES
    isContainer,    \* what this.isContainer() returns for the wrapped widget
    needOverlay,    \* what this.needOverlay() returns for the wrapped widget
    defaultValue,   \* what this.getDefaultValue() returns for the wrapped widget
    children,       \* this.children
    incoming,       \* the properties the host last passed to beforeProperties, if any since the children were set
    properties,     \* this.properties (what beforeProperties last returned)
    _key,           \* this._key
    rendered,       \* the render result the host last passed to afterRender
    result,         \* what the last operation, a render pass, handed the host to paint
    observed,       \* the keys registered with meta(Resize) during the last operation
    calls,          \* the payloads onFocus received during the last operation
    stopped,        \* the last mouse-up event had stopImmediatePropagation called
    lookup,         \* the key _onMouseUp last gave to meta(Dimensions).get
    raised,         \* the last operation ended in a TypeError
    painted,        \* a render pass has returned, so the handler is bound to a node on screen
    op              \* the last operation

vars == <<isContainer, needOverlay, defaultValue, children, incoming, properties,
          _key, rendered, result, observed, calls, stopped, lookup, raised,
          painted, op>>

\* Bounds of the model.
MaxChildren == 2
MaxLen == 2

(***************************************************************************)
(* Values                                                                  *)
(***************************************************************************)

\* css.emptyContainer, the class of the empty-container placeholder.
emptyContainer == "emptyContainer"

\* this._triggerResizeWidgetKey
_triggerResizeWidgetKey == "__triggerResize__"

\* A key of a node's properties: undefined, a string or a number.
KUndef == [t |-> "undef", s |-> "", n |-> 0]
KStr(s) == [t |-> "str", s |-> s, n |-> 0]
KNum(n) == [t |-> "num", s |-> "", n |-> n]

\* String(key), as afterRender applies it to properties.key.
String(k) ==
    CASE k.t = "str" -> k.s
      [] k.t = "num" -> ToString(k.n)
      [] OTHER -> "undefined"

\* widget.properties: the persisted properties of the design-time model.
\* has is the set of own fields; an absent field reads as "".
Persisted(has, value, extraClasses) ==
    [has |-> has,
     value |-> IF "value" \in has THEN value ELSE "",
     extraClasses |-> IF "extraClasses" \in has THEN extraClasses ELSE ""]

NoPersisted == Persisted({}, "", "")

\* A UIInstWidget: id, widgetName and the persisted properties.
Widget(id, p) == [id |-> id, widgetName |-> "Container", properties |-> p]

NoWidget == [id |-> "", widgetName |-> "", properties |-> NoPersisted]

\* A properties object (EditableWidgetProperties plus the widget's own
\* properties): has is the set of own fields, "onFocus" among them when the
\* callback is supplied.
Props(has, widget, activeWidgetId, value, extraClasses) ==
    [has |-> has,
     widget |-> IF "widget" \in has THEN widget ELSE NoWidget,
     activeWidgetId |-> IF "activeWidgetId" \in has THEN activeWidgetId ELSE "",
     value |-> IF "value" \in has THEN value ELSE "",
     extraClasses |-> IF "extraClasses" \in has THEN extraClasses ELSE ""]

EmptyProps == Props({}, NoWidget, "", "", "")

\* { ...a, ...b }: the own fields of b override those of a, field by field.
Spread(a, b) ==
    [has |-> a.has \cup b.has,
     widget |-> IF "widget" \in b.has THEN b.widget ELSE a.widget,
     activeWidgetId |-> IF "activeWidgetId" \in b.has THEN b.activeWidgetId
                        ELSE a.activeWidgetId,
     value |-> IF "value" \in b.has THEN b.value ELSE a.value,
     extraClasses |-> IF "extraClasses" \in b.has THEN b.extraClasses
                      ELSE a.extraClasses]

\* widget.properties spread as a properties object.
AsProps(p) == Props(p.has, NoWidget, "", p.value, p.extraClasses)

\* A child of the instance: a node whose properties carry a widget
\* ("Cursor" for the designer's cursor) or a node whose properties carry
\* none.
Child(kind, widgetName) == [kind |-> kind, widgetName |-> widgetName]
CursorChild == Child("widget", "Cursor")
ButtonChild == Child("widget", "Button")
BareChild == Child("bare", "")

(***************************************************************************)
(* beforeProperties                                                        *)
(***************************************************************************)

\* _onlyContainsCursor(): "true", "false", or "raise" when the properties
\* of children[0] carry no widget (widgetName read of undefined).
_onlyContainsCursor(ch) ==
    IF Len(ch) > 1 THEN "false"
    ELSE IF Len(ch) = 0 \/ ch[1].kind # "widget" THEN "raise"
    ELSE IF ch[1].widgetName = "Cursor" THEN "true"
    ELSE "false"

\* this.children.length === 0 || this._onlyContainsCursor()
\* ("true", "false" or "raise"; || does not evaluate its right side when the
\* left is true).
NoUserChildren(ch) == IF Len(ch) = 0 THEN "true" ELSE _onlyContainsCursor(ch)

\* _valuePropertyIsNull(properties)
_valuePropertyIsNull(p) ==
    /\ "widget" \in p.has
    /\ "value" \in p.widget.properties.has
    /\ p.widget.properties.value = ""

\* The empty-container branch: the placeholder class first, then the
\* persisted properties, then the incoming ones.
EmptyContainerProps(p) ==
    Spread(Spread(Props({"extraClasses"}, NoWidget, "", "", emptyContainer),
                  AsProps(p.widget.properties)), p)

\* The mutant of ValueProps: the default value is spread first, so a value
\* of the incoming properties overrides it.
ValuePropsDefaultFirst(p, dflt) ==
    Spread(Spread(Props({"value"}, NoWidget, "", dflt, ""),
                  AsProps(p.widget.properties)), p)

\* The empty-value branch: persisted, then incoming, then value forced to
\* getDefaultValue().
ValueProps(p, dflt) ==
    Spread(Spread(AsProps(p.widget.properties), p),
           Props({"value"}, NoWidget, "", dflt, ""))

\* The last branch: persisted, then incoming.
MergedProps(p) == Spread(AsProps(p.widget.properties), p)

Returned(p) == [raised |-> FALSE, props |-> p]
Raised == [raised |-> TRUE, props |-> EmptyProps]

\* this.isContainer() && (children.length === 0 || _onlyContainsCursor())
IsEmptyContainer(isC, ch) == IF ~isC THEN "false" ELSE NoUserChildren(ch)

\* _valuePropertyIsNull(properties) && (children.length === 0 || ...)
IsEmptyValue(p, ch) == IF ~_valuePropertyIsNull(p) THEN "false" ELSE NoUserChildren(ch)

\* beforeProperties(properties): the resolved properties, or a TypeError.
beforeProperties(p, isC, dflt, ch) ==
    IF "widget" \notin p.has THEN Returned(Spread(EmptyProps, p))
    ELSE IF IsEmptyContainer(isC, ch) = "raise" THEN Raised
    ELSE IF IsEmptyContainer(isC, ch) = "true" THEN Returned(EmptyContainerProps(p))
    ELSE IF IsEmptyValue(p, ch) = "raise" THEN Raised
    ELSE IF IsEmptyValue(p, ch) = "true" THEN Returned(ValueProps(p, dflt))
    ELSE Returned(MergedProps(p))

(***************************************************************************)
(* afterRender                                                             *)
(***************************************************************************)

\* What meta(Dimensions).get(key) returns: the geometry of the node with
\* that key.
DimensionsGet(key) == [node |-> key]
NoDimensions == [node |-> ""]

\* What the deferred-properties callback of the trigger node closes over:
\* widget, activeWidgetId and onFocus of this.properties, and key.
Closure(widget, activeWidgetId, onFocus, key) ==
    [set |-> TRUE, widget |-> widget, activeWidgetId |-> activeWidgetId,
     onFocus |-> onFocus, key |-> key]
NoClosure == [set |-> FALSE, widget |-> NoWidget, activeWidgetId |-> "",
              onFocus |-> FALSE, key |-> ""]

\* A DNode: null, a node with properties (key, onmouseup), the Overlay
\* widget node (dimensions, onMouseUp) or the trigger span with its
\* deferred-properties callback.
Node(kind, key, onmouseup, dimensions, closure) ==
    [kind |-> kind, key |-> key, onmouseup |-> onmouseup,
     dimensions |-> dimensions, closure |-> closure]
NullNode == Node("null", KUndef, "unset", NoDimensions, NoClosure)
VNode(key) == Node("vnode", key, "unset", NoDimensions, NoClosure)

\* w(Overlay, { dimensions, onMouseUp: this._onMouseUp })
Overlay(dimensions) == Node("overlay", KUndef, "_onMouseUp", dimensions, NoClosure)

\* v('span', (inserted) => { this._tryFocus(...); return { key } })
TriggerNode(closure) == Node("span", KUndef, "unset", NoDimensions, closure)

\* _isFocus(widget, activeWidgetId)
_isFocus(widget, activeWidgetId) == widget.id = activeWidgetId

\* The mutant of _renderTriggerResizeNode: the focus guard is left out and
\* the trigger node is rendered for every instance with a widget.
_renderTriggerResizeNodeAlways(p, key) ==
    IF "widget" \notin p.has THEN [raised |-> TRUE, node |-> NullNode]
    ELSE [raised |-> FALSE,
          node |-> TriggerNode(Closure(p.widget, p.activeWidgetId,
                                       "onFocus" \in p.has, key))]

\* The outcome of _renderTriggerResizeNode(key): the node, or a TypeError
\* when this.properties has no widget (widget.id read of undefined).
_renderTriggerResizeNode(p, key) ==
    IF "widget" \notin p.has THEN [raised |-> TRUE, node |-> NullNode]
    ELSE IF _isFocus(p.widget, p.activeWidgetId)
         THEN [raised |-> FALSE,
               node |-> TriggerNode(Closure(p.widget, p.activeWidgetId,
                                            "onFocus" \in p.has, key))]
         ELSE [raised |-> FALSE, node |-> NullNode]

\* find(result, elm => elm !== null && elm.properties.key !== undefined)
\* from index i on: the index of the first match, 0 when there is none.
RECURSIVE FindKeyed(_, _)
FindKeyed(nodes, i) ==
    IF i > Len(nodes) THEN 0
    ELSE IF nodes[i].kind = "null" THEN FindKeyed(nodes, i + 1)
    ELSE IF nodes[i].key.t # "undef" THEN i
    ELSE FindKeyed(nodes, i + 1)

\* The index of widgetNode in the normalised result: the found element of an
\* array, the node itself otherwise; 0 when reading its properties.key
\* raises (nothing found, or the single result is null).
PrimaryIndex(r) ==
    IF r.array THEN FindKeyed(r.nodes, 1)
    ELSE IF r.nodes[1].kind = "null" THEN 0 ELSE 1

\* The normalised result with the handler bound to the widget node.
BindMouseUp(nodes, i) == [nodes EXCEPT ![i].onmouseup = "_onMouseUp"]

\* The mutant of afterRenderOverlay: the handler is bound to the widget
\* node as well.
afterRenderOverlayBoth(nodes, i, key, trigger) ==
    BindMouseUp(nodes, i) \o <<Overlay(DimensionsGet(key)), trigger>>

\* The needOverlay() branch: [...result, w(Overlay, ...), trigger].
afterRenderOverlay(nodes, i, key, trigger) ==
    nodes \o <<Overlay(DimensionsGet(key)), trigger>>

\* The other branch: onmouseup bound to the widget node, [...result, trigger].
afterRenderPlain(nodes, i, key, trigger) ==
    BindMouseUp(nodes, i) \o <<trigger>>

\* key = String(widgetNode.properties.key), what this._key becomes.
RecordedKey(nodes, i) == String(nodes[i].key)

\* afterRender(result) on an instance with properties p and this._key = old:
\* whether it raised, what this._key is afterwards (a TypeError at
\* widgetNode.properties comes before the assignment, one in
\* _renderTriggerResizeNode after it), and the array returned.
afterRender(r, p, overlay, old) ==
    LET i == PrimaryIndex(r)
    IN  IF i < 1 THEN [raised |-> TRUE, key |-> old, out |-> <<>>]
        ELSE LET key == RecordedKey(r.nodes, i)
                 t == _renderTriggerResizeNode(p, key)
             IN  IF t.raised THEN [raised |-> TRUE, key |-> key, out |-> <<>>]
                 ELSE [raised |-> FALSE, key |-> key,
                       out |-> IF overlay
                               THEN afterRenderOverlay(r.nodes, i, key, t.node)
                               ELSE afterRenderPlain(r.nodes, i, key, t.node)]

\* What onFocus receives.
Payload(dimensions, id) == [activeWidgetDimensions |-> dimensions, activeWidgetId |-> id]

\* _focus(onFocus, activeWidgetId, key): the payloads onFocus receives and
\* the keys registered with meta(Resize).
_focus(p, onFocus, activeWidgetId, key) ==
    [calls |-> IF onFocus THEN <<Payload(DimensionsGet(key), p.widget.id)>> ELSE <<>>,
     observed |-> {key}]

\* _tryFocus(widget, activeWidgetId, onFocus, key)
_tryFocus(p, widget, activeWidgetId, onFocus, key) ==
    IF _isFocus(widget, activeWidgetId) THEN _focus(p, onFocus, activeWidgetId, key)
    ELSE [calls |-> <<>>, observed |-> {}]

\* The host engine resolving the deferred properties of the nodes it is
\* about to paint: each callback runs once within the render pass; the
\* trigger node's callback returns { key: this._triggerResizeWidgetKey }.
ResolvedNode(n) == IF n.closure.set THEN [n EXCEPT !.key = KStr(_triggerResizeWidgetKey)] ELSE n
HostResolve(out) == [i \in 1..Len(out) |-> ResolvedNode(out[i])]

\* The effects of the callbacks the host runs for the array out.
RECURSIVE DeferredEffects(_, _, _)
DeferredEffects(p, out, i) ==
    IF i > Len(out) THEN [calls |-> <<>>, observed |-> {}]
    ELSE LET rest == DeferredEffects(p, out, i + 1)
             c == out[i].closure
             e == IF c.set THEN _tryFocus(p, c.widget, c.activeWidgetId, c.onFocus, c.key)
                  ELSE [calls |-> <<>>, observed |-> {}]
         IN  [calls |-> e.calls \o rest.calls, observed |-> e.observed \cup rest.observed]

(***************************************************************************)
(* The inputs the host and the user supply                                 *)
(***************************************************************************)

\* The widget ids of the page.
WidgetIds == {"w1", "w2"}

\* The persisted properties of the widget.
PersistedSet ==
    {Persisted(h, v, "own") : h \in SUBSET {"value", "extraClasses"}, v \in {"", "v"}}
    \ {Persisted({"value", "extraClasses"}, "v", "own")}

\* The properties objects that differ in what the resolver reads: with or
\* without widget, value and extraClasses.
IncomingAll ==
    {Props(h \cup {"activeWidgetId", "onFocus"}, Widget("w1", q), "w1", "in", "inc") :
        h \in SUBSET {"widget", "value", "extraClasses"}, q \in PersistedSet}

\* The properties objects that differ in the editor's fields only.
IncomingEditor ==
    {Props(h \cup {"activeWidgetId"}, Widget("w1", NoPersisted), a, "", "") :
        h \in SUBSET {"widget", "onFocus"}, a \in WidgetIds}

\* The children arrays of at most n elements.
ChildKinds == {CursorChild, ButtonChild, BareChild}
RECURSIVE SeqsUpTo(_, _)
SeqsUpTo(S, n) ==
    IF n = 0 THEN {<<>>}
    ELSE LET shorter == SeqsUpTo(S, n - 1)
         IN  shorter \cup {Append(q, x) : q \in {t \in shorter : Len(t) = n - 1}, x \in S}
ChildrenSet == SeqsUpTo(ChildKinds, MaxChildren)

\* What the wrapped widget's render returns: one node, or an array of at
\* most MaxLen nodes.
RenderNodes == {NullNode, VNode(KUndef), VNode(KStr("a")), VNode(KNum(1))}
RenderResults ==
    {[array |-> FALSE, nodes |-> <<n>>] : n \in RenderNodes}
    \cup {[array |-> TRUE, nodes |-> q] : q \in SeqsUpTo(RenderNodes, MaxLen)}

NoRender == [array |-> TRUE, nodes |-> <<>>]

(***************************************************************************)
(* The instance after construction                                         *)
(***************************************************************************)

InitInstance ==
    /\ children = <<>>
    /\ incoming = EmptyProps
    /\ properties = EmptyProps
    /\ _key = ""
    /\ rendered = NoRender
    /\ result = <<>>
    /\ observed = {}
    /\ calls = <<>>
    /\ stopped = FALSE
    /\ lookup = ""
    /\ raised = FALSE
    /\ painted = FALSE
    /\ op = "init"

\* A widget class that overrides none of the hooks but needOverlay.
Init ==
    /\ isContainer = FALSE
    /\ defaultValue = ""
    /\ needOverlay \in BOOLEAN
    /\ InitInstance

\* Any widget class that does not need an overlay.
ResolverInit ==
    /\ isContainer \in BOOLEAN
    /\ defaultValue \in {"", "__"}
    /\ needOverlay = FALSE
    /\ InitInstance

(***************************************************************************)
(* The operations                                                          *)
(***************************************************************************)

\* The host sets the children of the instance.
SetChildren(ch) ==
    /\ children' = ch
    /\ op' = "children"
    /\ raised' = FALSE
    /\ calls' = <<>>
    /\ observed' = {}
    /\ stopped' = FALSE
    /\ lookup' = ""
    /\ result' = <<>>
    /\ incoming' = EmptyProps
    /\ UNCHANGED <<isContainer, needOverlay, defaultValue, properties, _key, rendered,
                   painted>>

\* The host sets the properties: this.properties becomes what
\* beforeProperties returns; a TypeError leaves it as it was.
SetProperties(p) ==
    LET b == beforeProperties(p, isContainer, defaultValue, children)
    IN  /\ incoming' = p
        /\ properties' = IF b.raised THEN properties ELSE b.props
        /\ raised' = b.raised
        /\ op' = "props"
        /\ calls' = <<>>
        /\ observed' = {}
        /\ stopped' = FALSE
        /\ lookup' = ""
        /\ result' = <<>>
        /\ UNCHANGED <<isContainer, needOverlay, defaultValue, children,
                       _key, rendered, painted>>

\* A render pass: the host passes the widget's render result r to
\* afterRender and resolves the deferred properties of what it returns.
Render(r) ==
    LET a == afterRender(r, properties, needOverlay, _key)
        e == DeferredEffects(properties, a.out, 1)
    IN  /\ rendered' = r
        /\ _key' = a.key
        /\ raised' = a.raised
        /\ result' = HostResolve(a.out)
        /\ calls' = e.calls
        /\ observed' = e.observed
        /\ op' = "render"
        /\ stopped' = FALSE
        /\ lookup' = ""
        /\ painted' = (painted \/ ~a.raised)
        /\ UNCHANGED <<isContainer, needOverlay, defaultValue, children, incoming,
                       properties>>

\* _onMouseUp(event) with an event: propagation stopped, the geometry of
\* this._key looked up, onFocus called if there is one; widget.id raises a
\* TypeError when there is an onFocus and no widget.
_onMouseUp(p, key) ==
    [stopped |-> TRUE, lookup |-> key,
     raised |-> "onFocus" \in p.has /\ "widget" \notin p.has,
     calls |-> IF "onFocus" \in p.has /\ "widget" \in p.has
               THEN <<Payload(DimensionsGet(key), p.widget.id)>> ELSE <<>>]

\* A mouse-up on the node the handler is bound to.
MouseUp ==
    LET m == _onMouseUp(properties, _key)
    IN  /\ painted
        /\ op' = "mouseup"
        /\ stopped' = m.stopped
        /\ lookup' = m.lookup
        /\ raised' = m.raised
        /\ calls' = m.calls
        /\ observed' = {}
        /\ result' = <<>>
        /\ UNCHANGED <<isContainer, needOverlay, defaultValue, children, incoming,
                       properties, _key, rendered, painted>>

\* The bound handler called without an event: nothing happens.
MouseUpNoEvent ==
    /\ painted
    /\ op' = "mouseup0"
    /\ stopped' = FALSE
    /\ lookup' = ""
    /\ raised' = FALSE
    /\ calls' = <<>>
    /\ observed' = {}
    /\ result' = <<>>
    /\ UNCHANGED <<isContainer, needOverlay, defaultValue, children, incoming,
                   properties, _key, rendered, painted>>

EditorProperties == \E p \in IncomingEditor : SetProperties(p)
RenderPass == \E r \in RenderResults : Render(r)

\* The life of an instance in the editor.
Next == EditorProperties \/ RenderPass \/ MouseUp \/ MouseUpNoEvent

Spec == Init /\ [][Next]_vars

ResolveChildren == \E ch \in ChildrenSet : SetChildren(ch)
ResolveProperties == \E p \in IncomingAll : SetProperties(p)

\* The property resolver under every kind of children and properties.
ResolverNext == ResolveChildren \/ ResolveProperties

ResolverSpec == ResolverInit /\ [][ResolverNext]_vars

(***************************************************************************)
(* Properties of the property resolver (ResolverSpec)                      *)
(***************************************************************************)

\* The state right after beforeProperties ran on an instance with a widget.
Resolved == op = "props" /\ "widget" \in incoming.has

\* The children are none, or the cursor alone.
VisuallyEmpty == children = <<>> \/ children = <<CursorChild>>

\* C1: for a container with zero children and a widget in the incoming
\* properties, whatever the incoming and the persisted properties carry,
\* the resolved extraClasses.root is the empty-container placeholder class.
C1_PlaceholderForced ==
    (Resolved /\ isContainer /\ children = <<>>) =>
        /\ ~raised
        /\ "extraClasses" \in properties.has
        /\ properties.extraClasses = emptyContainer

\* C6: for a container with a widget, the placeholder branch is taken if
\* and only if there are no children or the cursor alone, the cursor-only
\* case resolving as the zero-children case does; any other children,
\* whatever their properties, resolve without raising through the branch
\* without placeholder.
C6_EmptyClassification ==
    (Resolved /\ isContainer) =>
        /\ ~raised
        /\ properties = IF VisuallyEmpty
                        THEN beforeProperties(incoming, TRUE, defaultValue, <<>>).props
                        ELSE MergedProps(incoming)

\* The case of C7: a childless instance that is no container and whose
\* persisted value is the empty string.
EmptyValueCase ==
    /\ Resolved
    /\ ~isContainer
    /\ children = <<>>
    /\ "value" \in incoming.widget.properties.has
    /\ incoming.widget.properties.value = ""

\* C7: in that case the resolved value is getDefaultValue() whatever value
\* the incoming properties carry, every other field is the persisted one
\* overridden by the incoming one, and widget.properties still holds the
\* empty string.
C7_EmptyValueGetsDefault ==
    EmptyValueCase =>
        /\ ~raised
        /\ "value" \in properties.has
        /\ properties.value = defaultValue
        /\ properties.has = incoming.has \cup incoming.widget.properties.has
        /\ properties.extraClasses =
               IF "extraClasses" \in incoming.has THEN incoming.extraClasses
               ELSE incoming.widget.properties.extraClasses
        /\ properties.activeWidgetId = incoming.activeWidgetId
        /\ properties.widget = incoming.widget
        /\ properties.widget.properties.value = ""

\* C7 happens: the incoming properties carry a value, the default is "__",
\* and the resolved value is the default.
C7_Witness ==
    /\ EmptyValueCase
    /\ "value" \in incoming.has
    /\ incoming.value # defaultValue
    /\ defaultValue = "__"
    /\ properties.value = "__"

(***************************************************************************)
(* Properties of the render pass and the mouse-up handler (Spec)           *)
(***************************************************************************)

\* The host has set properties that carry no widget.
Unmanaged == "activeWidgetId" \in properties.has /\ "widget" \notin properties.has

\* widget.id === activeWidgetId in this.properties.
Focused == "widget" \in properties.has /\ properties.widget.id = properties.activeWidgetId

\* The positions of the trigger nodes and of the nodes that carry the
\* mouse-up handler in what the pass returned.
TriggerPositions == {i \in 1..Len(result) : result[i].kind = "span"}
HandlerPositions == {i \in 1..Len(result) : result[i].onmouseup = "_onMouseUp"}
OverlayPositions == {i \in 1..Len(result) : result[i].kind = "overlay"}

\* The positions of the elements of the last render result that have a key.
KeyedPositions ==
    {i \in 1..Len(rendered.nodes) :
        rendered.nodes[i].kind # "null" /\ rendered.nodes[i].key.t # "undef"}

\* The position of the primary node of the last render result: the first
\* keyed element of an array, the node itself otherwise.
PrimaryPosition ==
    IF rendered.array
    THEN CHOOSE i \in KeyedPositions : \A j \in KeyedPositions : i <= j
    ELSE 1

\* The key of the first element of the last render result that has one, as
\* a string; "undefined" when no element has one.
FirstKey ==
    IF KeyedPositions = {} THEN "undefined"
    ELSE String(rendered.nodes[CHOOSE i \in KeyedPositions :
                                   \A j \in KeyedPositions : i <= j].key)

\* C2: on an instance whose properties carry no widget, neither the
\* resolver, nor the render pass, nor a later mouse-up raises.
C2_NoWidgetNeverRaises == Unmanaged => ~raised

\* C3: a render result that is an array without any keyed element does not
\* make the pass raise: the pass records the undefined key and returns an
\* array.
C3_KeylessArrayReturns ==
    (op = "render" /\ rendered.array /\ FirstKey = "undefined"
        /\ "widget" \in properties.has) =>
        /\ ~raised
        /\ _key = "undefined"
        /\ Len(result) > 0

\* C4: every render of a focused instance that has an onFocus invokes
\* onFocus exactly once, with the geometry of the primary key of that
\* render and the id of the widget.
C4_OnFocusOncePerRender ==
    (op = "render" /\ Focused /\ "onFocus" \in properties.has) =>
        calls = <<Payload(DimensionsGet(IF rendered.array THEN FirstKey
                                        ELSE String(rendered.nodes[1].key)),
                          properties.widget.id)>>

C5_WitnessNoFocus ==
    /\ op = "render"
    /\ ~raised
    /\ ~Focused
    /\ Len(result) > 1
    /\ result[Len(result)].kind = "null"

\* C8: a mouse-up with an event stops the propagation and invokes onFocus
\* exactly once, with the measured geometry and widget.id, when there is an
\* onFocus, and not at all when there is none.
C8_MouseUpFocusesOnce ==
    (op = "mouseup") =>
        /\ stopped
        /\ Len(calls) <= 1
        /\ IF "onFocus" \in properties.has
           THEN calls = <<Payload(DimensionsGet(_key), properties.widget.id)>>
           ELSE calls = <<>>

C9_WitnessPlain ==
    /\ op = "render"
    /\ ~raised
    /\ ~needOverlay
    /\ Len(rendered.nodes) = 2
    /\ HandlerPositions = {2}

\* C10: after any renders and mouse-ups, the key a mouse-up looks the
\* geometry up by is the key of the first keyed element of the most recent
\* render pass, never the key of an earlier pass.
C10_LookupUsesLastRenderKey ==
    (op = "mouseup") =>
        lookup = IF rendered.array THEN FirstKey
                 ELSE String(rendered.nodes[1].key)

====
